---- MODULE Spec2Model ----
(***************************************************************************)
(* Model of src/src/binarytree.rs: LockFreeBinaryTree<T>, Node<T> and      *)
(* DerefGuard<T>.  Every atomic load / compare_exchange of the source is   *)
(* one step of the calling thread; a panic (assert!, todo!) ends the       *)
(* thread that hit it.                                                     *)
(***************************************************************************)
EXTENDS Integers, Sequences, FiniteSets, TLC

\* ---- bounds ------------------------------------------------------------
NumThreads == 2
MaxValue == 2
MaxCalls == 3
MaxTreeNodes == 3

Threads == 1..NumThreads
Values == 1..MaxValue

\* std::ptr::null_mut::<Node<T>>() and a null *mut T
Null == 0
NullData == 0

VARIABLES
    head,       \* LockFreeBinaryTree::head : AtomicPtr<Node<T>>
    nodes,      \* the heap of leaked Node<T> boxes, indexed by address
    pc,         \* per thread: the source position it is at
    item,       \* per thread: the argument of the running call
    new_node,   \* per thread: push's `new_node`
    current,    \* per thread: push's / find's loaded `current`
    guard,      \* per thread: the DerefGuard it holds, or NoGuard
    synced,     \* per thread: nodes whose construction happens-before its reads
    log         \* per thread: the calls it made and how each ended

vars == <<head, nodes, pc, item, new_node, current, guard, synced, log>>

NoGuard == [node |-> Null, item |-> 0]

\* ---- pure functions ----------------------------------------------------

\* Ord::cmp on T = integers
cmp(a, b) == IF a < b THEN "Less" ELSE IF a > b THEN "Greater" ELSE "Equal"

\* leaky publishing the node before its data pointer is set
leakyNoData(v) == [data |-> NullData, left |-> Null, right |-> Null]

\* Node::leaky: both child slots null, data points at the boxed item
leaky(v) == [data |-> v, left |-> Null, right |-> Null]

\* relaxed_search, given the value `node_data` its load of (*current).data saw
relaxed_search_with(cur, to_find, node_data) ==
    IF cur = Null THEN [abort |-> "assert_current", node |-> Null, ordering |-> "Equal"]
    ELSE IF node_data = NullData
         THEN [abort |-> "assert_data", node |-> Null, ordering |-> "Equal"]
    ELSE LET ordering == cmp(node_data, to_find)
             new_current == CASE ordering = "Less" -> nodes[cur].left
                              [] ordering = "Greater" -> nodes[cur].right
                              [] OTHER -> Null
         IN IF new_current = Null
            THEN [abort |-> "no", node |-> cur, ordering |-> ordering]
            ELSE [abort |-> "no", node |-> new_current, ordering |-> ordering]

relaxed_search(cur, to_find) ==
    relaxed_search_with(cur, to_find, IF cur = Null THEN NullData ELSE nodes[cur].data)

\* DerefGuard::deref
deref(g) == nodes[g.node].data

\* ---- helpers over the log ----------------------------------------------
Entry(o, v, r, n) == [op |-> o, arg |-> v, res |-> r, node |-> n]
Last(s) == s[Len(s)]
\* calls thread t has made so far, the running one included
Calls(t) == Len(log[t]) + (IF pc[t] \in {"idle", "panicked"} THEN 0 ELSE 1)

RECURSIVE SumCalls(_)
SumCalls(S) == IF S = {} THEN 0
               ELSE LET t == CHOOSE x \in S : TRUE IN Calls(t) + SumCalls(S \ {t})

\* a run makes at most MaxCalls calls in all
CanCall(t) == pc[t] = "idle" /\ SumCalls(Threads) < MaxCalls

\* the call's locals go out of scope when it ends
EndCall(t) ==
    /\ item' = [item EXCEPT ![t] = 0]
    /\ new_node' = [new_node EXCEPT ![t] = Null]
    /\ current' = [current EXCEPT ![t] = Null]

\* a panic unwinds the thread: its locals (a held guard) are dropped
Abort(t, o, why) ==
    /\ pc' = [pc EXCEPT ![t] = "panicked"]
    /\ log' = [log EXCEPT ![t] = Append(@, Entry(o, item[t], why, Null))]
    /\ guard' = [guard EXCEPT ![t] = NoGuard]
    /\ EndCall(t)

Init ==
    /\ head = Null
    /\ nodes = <<>>
    /\ pc = [t \in Threads |-> "idle"]
    /\ item = [t \in Threads |-> 0]
    /\ new_node = [t \in Threads |-> Null]
    /\ current = [t \in Threads |-> Null]
    /\ guard = [t \in Threads |-> NoGuard]
    /\ synced = [t \in Threads |-> {}]
    /\ log = [t \in Threads |-> <<>>]

\* ---- push ----------------------------------------------------------------

\* line 69: let new_node = Node::leaky(item)
PushCall(t, v) ==
    /\ CanCall(t)
    /\ nodes' = Append(nodes, leaky(v))
    /\ new_node' = [new_node EXCEPT ![t] = Len(nodes) + 1]
    /\ item' = [item EXCEPT ![t] = v]
    /\ synced' = [synced EXCEPT ![t] = @ \cup {Len(nodes) + 1}]
    /\ pc' = [pc EXCEPT ![t] = "push_load"]
    /\ UNCHANGED <<head, current, guard, log>>

\* lines 71-72: current = head.load(Relaxed); branch on current.is_null()
PushLoadHead(t) ==
    /\ pc[t] = "push_load"
    /\ current' = [current EXCEPT ![t] = head]
    /\ pc' = [pc EXCEPT ![t] = IF head = Null THEN "push_cas" ELSE "push_search"]
    /\ UNCHANGED <<head, nodes, item, new_node, guard, synced, log>>

\* PushCas with the two pointer arguments of compare_exchange swapped
PushCasSwapped(t) ==
    /\ pc[t] = "push_cas"
    /\ IF head = new_node[t]
       THEN /\ head' = current[t]
            /\ pc' = [pc EXCEPT ![t] = "push_ret"]
       ELSE /\ head' = head
            /\ pc' = [pc EXCEPT ![t] = "push_load"]
    /\ UNCHANGED <<nodes, item, new_node, current, guard, synced, log>>

\* PushCas as a plain store of the new node, whatever the root holds
PushCasStore(t) ==
    /\ pc[t] = "push_cas"
    /\ head' = new_node[t]
    /\ pc' = [pc EXCEPT ![t] = "push_ret"]
    /\ UNCHANGED <<nodes, item, new_node, current, guard, synced, log>>

\* lines 73-82: head.compare_exchange(current, new_node, Release, Relaxed)
PushCas(t) ==
    /\ pc[t] = "push_cas"
    /\ IF head = current[t]
       THEN /\ head' = new_node[t]
            /\ pc' = [pc EXCEPT ![t] = "push_ret"]
       ELSE /\ head' = head
            /\ pc' = [pc EXCEPT ![t] = "push_load"]
    /\ UNCHANGED <<nodes, item, new_node, current, guard, synced, log>>

\* lines 85-87: data = (*new_node).data.load(Acquire); relaxed_search(current, data);
\* todo!().  The search only reads, and its result is dropped, so the call ends
\* at the first panic it meets: an assertion of relaxed_search, else todo!().
\* `current` came from a Relaxed load: unless the node's construction already
\* happens-before this thread, the read of its fields races with the construction
\* and may see the data pointer unset.
PushSearch(t) ==
    /\ pc[t] = "push_search"
    /\ \/ LET r == relaxed_search(current[t], nodes[new_node[t]].data)
          IN Abort(t, "push", IF r.abort = "no" THEN "todo" ELSE r.abort)
       \/ /\ current[t] \notin synced[t]
          /\ LET r == relaxed_search_with(current[t], nodes[new_node[t]].data, NullData)
             IN Abort(t, "push", IF r.abort = "no" THEN "todo" ELSE r.abort)
    /\ UNCHANGED <<head, nodes, synced>>

\* line 91: return true
PushReturn(t) ==
    /\ pc[t] = "push_ret"
    /\ log' = [log EXCEPT ![t] = Append(@, Entry("push", item[t], "true", Null))]
    /\ pc' = [pc EXCEPT ![t] = "idle"]
    /\ EndCall(t)
    /\ UNCHANGED <<head, nodes, guard, synced>>

\* ---- find ----------------------------------------------------------------

\* FindCall taking the root out of the slot (swap) instead of loading it
FindCallSwap(t, v) ==
    /\ CanCall(t)
    /\ guard[t] = NoGuard
    /\ item' = [item EXCEPT ![t] = v]
    /\ current' = [current EXCEPT ![t] = head]
    /\ head' = Null
    /\ synced' = [synced EXCEPT ![t] = IF head = Null THEN @ ELSE @ \cup {head}]
    /\ pc' = [pc EXCEPT ![t] = "find_search"]
    /\ UNCHANGED <<nodes, new_node, guard, log>>

\* line 107, argument: self.head.load(Acquire)
FindCall(t, v) ==
    /\ CanCall(t)
    /\ guard[t] = NoGuard
    /\ item' = [item EXCEPT ![t] = v]
    /\ current' = [current EXCEPT ![t] = head]
    /\ synced' = [synced EXCEPT ![t] = IF head = Null THEN @ ELSE @ \cup {head}]
    /\ pc' = [pc EXCEPT ![t] = "find_search"]
    /\ UNCHANGED <<head, nodes, new_node, guard, log>>

\* lines 107-108: relaxed_search(current, item); DerefGuard::new(node)
FindSearch(t) ==
    /\ pc[t] = "find_search"
    /\ LET r == relaxed_search(current[t], item[t])
       IN IF r.abort = "no"
          THEN /\ guard' = [guard EXCEPT ![t] = [node |-> r.node, item |-> item[t]]]
               /\ log' = [log EXCEPT ![t] = Append(@, Entry("find", item[t], "guard", r.node))]
               /\ pc' = [pc EXCEPT ![t] = "idle"]
               /\ EndCall(t)
          ELSE Abort(t, "find", r.abort)
    /\ UNCHANGED <<head, nodes, synced>>

\* the DerefGuard goes out of scope
GuardDrop(t) ==
    /\ pc[t] = "idle"
    /\ guard[t] # NoGuard
    /\ guard' = [guard EXCEPT ![t] = NoGuard]
    /\ UNCHANGED <<head, nodes, pc, item, new_node, current, synced, log>>

\* ---- delete --------------------------------------------------------------

\* lines 111-113: todo!()
Delete(t, v) ==
    /\ CanCall(t)
    /\ pc' = [pc EXCEPT ![t] = "panicked"]
    /\ log' = [log EXCEPT ![t] = Append(@, Entry("delete", v, "todo", Null))]
    /\ guard' = [guard EXCEPT ![t] = NoGuard]
    /\ UNCHANGED <<head, nodes, item, new_node, current, synced>>

Next ==
    \E t \in Threads :
        \/ \E v \in Values : PushCall(t, v)
        \/ PushLoadHead(t)
        \/ PushCas(t)
        \/ PushSearch(t)
        \/ PushReturn(t)
        \/ \E v \in Values : FindCall(t, v)
        \/ FindSearch(t)
        \/ GuardDrop(t)
        \/ \E v \in Values : Delete(t, v)

\* the steps of one thread
Step(t) ==
    \/ \E v \in Values : PushCall(t, v)
    \/ PushLoadHead(t)
    \/ PushCas(t)
    \/ PushSearch(t)
    \/ PushReturn(t)
    \/ \E v \in Values : FindCall(t, v)
    \/ FindSearch(t)
    \/ GuardDrop(t)
    \/ \E v \in Values : Delete(t, v)

Spec == Init /\ [][Next]_vars

\* every thread that can take a step is scheduled again
FairSpec == Spec /\ \A t \in Threads : WF_vars(Step(t))

\* ---- find on a tree that is already built ---------------------------------
\* push links no node below the root, so the trees of more than one node that
\* find and relaxed_search are given here are built the way an ordered insert
\* builds them: smaller values to the left, greater ones to the right.

TreeValues == 1..MaxTreeNodes

RECURSIVE Attach(_, _, _)
Attach(ns, n, v) ==
    IF v = ns[n].data THEN ns
    ELSE IF v < ns[n].data
         THEN IF ns[n].left = Null
              THEN Append([ns EXCEPT ![n].left = Len(ns) + 1], leaky(v))
              ELSE Attach(ns, ns[n].left, v)
         ELSE IF ns[n].right = Null
              THEN Append([ns EXCEPT ![n].right = Len(ns) + 1], leaky(v))
              ELSE Attach(ns, ns[n].right, v)

RECURSIVE TreeOf(_)
TreeOf(s) ==
    IF s = <<>> THEN <<>>
    ELSE LET ns == TreeOf(SubSeq(s, 1, Len(s) - 1))
         IN IF ns = <<>> THEN <<leaky(s[Len(s)])>> ELSE Attach(ns, 1, s[Len(s)])

TreeInputs ==
    {s \in UNION {[1..k -> TreeValues] : k \in 0..MaxTreeNodes} :
        \A i, j \in 1..Len(s) : i # j => s[i] # s[j]}

InitTree ==
    /\ \E s \in TreeInputs :
          /\ nodes = TreeOf(s)
          /\ head = IF s = <<>> THEN Null ELSE 1
    /\ pc = [t \in Threads |-> "idle"]
    /\ item = [t \in Threads |-> 0]
    /\ new_node = [t \in Threads |-> Null]
    /\ current = [t \in Threads |-> Null]
    /\ guard = [t \in Threads |-> NoGuard]
    /\ synced = [t \in Threads |-> 1..Len(nodes)]
    /\ log = [t \in Threads |-> <<>>]

NextTree ==
    \E t \in Threads :
        \/ \E v \in Values : FindCall(t, v)
        \/ FindSearch(t)
        \/ GuardDrop(t)

SpecTree == InitTree /\ [][NextTree]_vars

\* ---- the tree as an observer sees it -------------------------------------

Kids(n) == {nodes[n].left, nodes[n].right} \ {Null}

RECURSIVE ReachFrom(_, _)
ReachFrom(F, S) == IF F \subseteq S THEN S
                   ELSE ReachFrom(UNION {Kids(n) : n \in F}, S \cup F)

Subtree(n) == IF n = Null THEN {} ELSE ReachFrom({n}, {})
Reachable == Subtree(head)
LiveValues == {nodes[n].data : n \in Reachable}

RECURSIVE InOrder(_)
InOrder(n) == IF n = Null THEN <<>>
              ELSE InOrder(nodes[n].left) \o <<nodes[n].data>> \o InOrder(nodes[n].right)

RECURSIVE SortedSeq(_)
SortedSeq(S) == IF S = {} THEN <<>>
                ELSE LET m == CHOOSE x \in S : \A y \in S : x <= y
                     IN <<m>> \o SortedSeq(S \ {m})

\* what a find(v) issued now, with nothing else running, ends with
FindSucceeds(v) ==
    LET r == relaxed_search(head, v)
    IN r.abort = "no" /\ nodes[r.node].data = v

\* ---- the calls made so far -------------------------------------------------

Running(t) == pc[t] \notin {"idle", "panicked"}
RunningOp(t) == IF pc[t] = "find_search" THEN "find" ELSE "push"
CallList(t) == log[t] \o (IF Running(t)
                          THEN <<Entry(RunningOp(t), item[t], "running", Null)>>
                          ELSE <<>>)
CallIds == {c \in Threads \X (1..MaxCalls) : c[2] <= Len(CallList(c[1]))}
CallAt(c) == CallList(c[1])[c[2]]

Settled == \A t \in Threads : ~Running(t)
Solo(t) == \A u \in Threads \ {t} : Calls(u) = 0
DistinctPushes ==
    /\ \A c \in CallIds : CallAt(c).op = "push"
    /\ \A c, d \in CallIds : c # d => CallAt(c).arg # CallAt(d).arg
PushedValues == {CallAt(c).arg : c \in {d \in CallIds : CallAt(d).op = "push"}}
Returned(t) == Len(log'[t]) = Len(log[t]) + 1

\* ---- claims ------------------------------------------------------------------

\* C1: when the threads each insert one distinct value into the initially empty
\* tree, exactly once each, then once all have ended, find(v) succeeds (its
\* reference reads v) for every inserted v.
C1_NoLostInserts ==
    (Settled /\ DistinctPushes /\ \A t \in Threads : Len(log[t]) <= 1)
        => \A v \in PushedValues : FindSucceeds(v)

\* C2: when threads push pairwise distinct values into the initially empty tree,
\* every push call ends by returning true: none of them aborts.
C2_DistinctPushesReturnTrue ==
    DistinctPushes =>
        \A t \in Threads : \A i \in 1..Len(log[t]) : log[t][i].res = "true"

\* C3: when two threads insert the same value into the tree that does not hold
\* it, one call reports true, the other false, and exactly one reachable node
\* holds the value afterwards.
C3_NoDuplicateAcceptance ==
    \A t1, t2 \in Threads : \A v \in Values :
        ( /\ t1 # t2
          /\ Settled
          /\ \A u \in Threads \ {t1, t2} : Calls(u) = 0
          /\ Len(log[t1]) = 1 /\ log[t1][1].op = "push" /\ log[t1][1].arg = v
          /\ Len(log[t2]) = 1 /\ log[t2][1].op = "push" /\ log[t2][1].arg = v )
        => /\ {log[t1][1].res, log[t2][1].res} = {"true", "false"}
           /\ Cardinality({n \in Reachable : nodes[n].data = v}) = 1

\* C4: a push of v onto an empty tree takes the compare-and-swap branch, the
\* compare-and-swap installs its new node as the root, and the call returns true
\* with the root pointing at a node that holds v and has two empty child slots.
C4_PushOntoEmpty ==
    [][\A t \in Threads :
        /\ (pc[t] = "push_load" /\ pc'[t] # "push_load" /\ head = Null)
               => pc'[t] = "push_cas"
        /\ (pc[t] = "push_cas" /\ pc'[t] # "push_cas" /\ head = Null)
               => /\ pc'[t] = "push_ret"
                  /\ head' = new_node[t]
                  /\ nodes'[head'] = [data |-> item[t], left |-> Null, right |-> Null]
        /\ (pc[t] = "push_ret" /\ pc'[t] # "push_ret")
               => /\ Last(log'[t]) = Entry("push", item[t], "true", Null)
                  /\ head' = new_node[t]
                  /\ nodes'[head'] = [data |-> item[t], left |-> Null, right |-> Null]
      ]_vars

\* a push onto the empty tree has returned true and its node is the root
C4_Witness ==
    \E t \in Threads :
        /\ pc[t] = "idle" /\ Len(log[t]) = 1
        /\ log[t][1].op = "push" /\ log[t][1].res = "true"
        /\ head # Null
        /\ nodes[head] = [data |-> log[t][1].arg, left |-> Null, right |-> Null]

\* C5: with nothing else running, insert(v) on a tree whose live node holds v
\* returns false and leaves the root slot, the child slots and the live values
\* as they were.
C5_DuplicateRejected ==
    \A t \in Threads : \A v \in Values :
        ( /\ Solo(t) /\ ~Running(t) /\ Len(log[t]) = 2
          /\ log[t][1] = Entry("push", v, "true", Null)
          /\ log[t][2].op = "push" /\ log[t][2].arg = v )
        => /\ log[t][2].res = "false"
           /\ head # Null
           /\ nodes[head] = [data |-> v, left |-> Null, right |-> Null]
           /\ LiveValues = {v}

\* C6: a find(v) that ended either returned None or a reference to a node that
\* holds v: never an abort, never a node holding another value.
C6_FindNoneWhenAbsent ==
    \A t \in Threads : \A i \in 1..Len(log[t]) :
        log[t][i].op = "find"
            => \/ log[t][i].res = "none"
               \/ /\ log[t][i].res = "guard"
                  /\ nodes[log[t][i].node].data = log[t][i].arg

\* C7: with nothing else running, after insert(v) returned true, delete(v)
\* returns true and every later find(v) returns None.
C7_DeleteAfterInsert ==
    \A t \in Threads : \A v \in Values :
        ( /\ Solo(t) /\ Len(log[t]) >= 2
          /\ log[t][1] = Entry("push", v, "true", Null)
          /\ log[t][2].op = "delete" /\ log[t][2].arg = v )
        => /\ log[t][2].res = "true"
           /\ \A i \in 3..Len(log[t]) :
                  (log[t][i].op = "find" /\ log[t][i].arg = v) => log[t][i].res = "none"

\* C8: with nothing else running, every delete(v) on a tree in which no live node
\* holds v (the empty tree included) returns false and leaves the tree unchanged;
\* so does a second one right after it.
C8_IdempotentDelete ==
    [][\A t \in Threads :
        ( /\ Solo(t) /\ Returned(t)
          /\ Last(log'[t]).op = "delete"
          /\ Last(log'[t]).arg \notin LiveValues )
        => /\ Last(log'[t]).res = "false"
           /\ pc'[t] = "idle"
           /\ head' = head /\ nodes' = nodes
      ]_vars

C10_OrderingInvariant ==
    /\ \A n \in Reachable :
          /\ \A m \in Subtree(nodes[n].left) : nodes[m].data < nodes[n].data
          /\ \A m \in Subtree(nodes[n].right) : nodes[m].data > nodes[n].data
    /\ (Settled /\ DistinctPushes) => InOrder(head) = SortedSeq(PushedValues)

\* C11: no call of push, find or delete aborts: the two assertions of the search
\* walker hold on every call made and no call reaches an unimplemented path.
C11_NoFatalErrors ==
    /\ \A t \in Threads : pc[t] # "panicked"
    /\ \A t \in Threads : \A i \in 1..Len(log[t]) :
           log[t][i].res \notin {"todo", "assert_current", "assert_data"}

\* C15: the search walker and find only read: the steps of a find call, and the
\* walker step of a push, leave the root slot and every node's value, left and
\* right slots as they were.
C15_WalkerReadOnly ==
    [][\A t \in Threads :
        ( \/ pc[t] = "idle" /\ pc'[t] = "find_search"
          \/ pc[t] = "find_search" /\ pc'[t] # "find_search"
          \/ pc[t] = "push_search" /\ pc'[t] # "push_search" )
        => head' = head /\ nodes' = nodes
      ]_vars

\* a find has walked a non-empty tree and returned its reference
C15_Witness ==
    \E t \in Threads :
        /\ head # Null
        /\ pc[t] = "idle" /\ Len(log[t]) > 0
        /\ Last(log[t]).op = "find" /\ Last(log[t]).res = "guard"
        /\ Last(log[t]).node \in Reachable

C17_InsertFillsEmptySlots ==
    [][/\ head' # head =>
            /\ head = Null
            /\ \E t \in Threads :
                   pc[t] = "push_cas" /\ pc'[t] = "push_ret" /\ head' = new_node[t]
       /\ \A n \in 1..Len(nodes) : nodes'[n] = nodes[n]
       /\ \A t \in Threads :
            (pc[t] = "push_cas" /\ pc'[t] # "push_cas" /\ head # Null)
                => head' = head /\ pc'[t] = "push_load"
       /\ Reachable \subseteq Reachable'
      ]_vars

\* one push linked its node, another met the occupied root and ended, and the
\* first node is still the root
C17_Witness ==
    \E t, u \in Threads :
        /\ t # u
        /\ Len(log[t]) > 0 /\ log[t][1].op = "push" /\ log[t][1].res = "true"
        /\ pc[u] = "panicked" /\ Last(log[u]).op = "push"
        /\ head # Null /\ nodes[head].data = log[t][1].arg

\* C18: under fair scheduling, when the calls made are all inserts, every insert
\* call in progress eventually returns.
OnlyPushes == \A c \in CallIds : CallAt(c).op = "push"

C18_InsertEventuallyReturns ==
    \A t \in Threads :
        (OnlyPushes /\ Running(t))
            ~> \/ ~OnlyPushes
               \/ /\ pc[t] = "idle" /\ Len(log[t]) > 0
                  /\ Last(log[t]).res \in {"true", "false"}

C20_OneDeleteWins ==
    \A t1, t2 \in Threads : \A v \in Values :
        ( /\ t1 # t2
          /\ \E t \in Threads : Len(log[t]) > 0 /\ log[t][1] = Entry("push", v, "true", Null)
          /\ Len(log[t1]) > 0 /\ Last(log[t1]).op = "delete" /\ Last(log[t1]).arg = v
          /\ Len(log[t2]) > 0 /\ Last(log[t2]).op = "delete" /\ Last(log[t2]).arg = v )
        => {Last(log[t1]).res, Last(log[t2]).res} = {"true", "false"}

\* the last node on the search path of v from node n, in an ordered tree
RECURSIVE PathEnd(_, _)
PathEnd(n, v) ==
    IF v = nodes[n].data THEN n
    ELSE LET c == IF v < nodes[n].data THEN nodes[n].left ELSE nodes[n].right
         IN IF c = Null THEN n ELSE PathEnd(c, v)

====
